---- MODULE Spec2Model ----
(***************************************************************************)
(* Rollout status viewers (pkg/internal/polymorphichelpers/                *)
(* rollout_status.go) and the first-pod locator and environment helpers    *)
(* (pkg/internal/polymorphichelpers/helpers.go) of kruise-tools.           *)
(*                                                                         *)
(* A caller resolves a (group, kind) with StatusViewerFor and then calls   *)
(* Status of the viewer it got on a decoded object; the model draws the    *)
(* (group, kind), the object and the target revision from bounded sets.    *)
(* GetFirstPod runs against a cluster whose pods change while it runs.     *)
(* updateEnv and UpdateResourceEnv are applied to bounded environment      *)
(* lists, and the resource merger of package set (whose tests are in       *)
(* src/unnamed/part_000) to bounded container lists.                       *)
(***************************************************************************)
EXTENDS Integers, Sequences, FiniteSets, TLC

VARIABLES
    pc,        \* position of the caller: "idle", "resolved", "done", "panicked"
    gk,        \* the schema.GroupKind handed to StatusViewerFor
    viewer,    \* the StatusViewer StatusViewerFor returned ("none": nil)
    viewerErr, \* whether StatusViewerFor returned an error
    obj,       \* the object handed to Status
    revision,  \* the target revision handed to Status
    res,       \* what Status returned: [msg, done, err]
    \* GetFirstPod and the cluster it talks to
    lpc,        \* position in GetFirstPod: "start", "listed", "watching", "returned"
    cluster,    \* the pods matching the selector that exist now
    log,        \* the pod events of the cluster; its length is the resource version
    sortKey,    \* the caller's sortBy: the key its Less compares
    timeout,    \* the timeout handed to GetFirstPod
    podList,    \* what List returned: [items, resourceVersion]
    w,          \* the watch: [state, resourceVersion, cursor, openedAt]
    watchCalls, \* how many times Watch was called
    elapsed,    \* time since the context of the wait was made
    seen,       \* what the wait received: [qualifying, closed, skipped]
    ret,        \* what GetFirstPod returned: [pod, count, err]
    cancelled,  \* whether the caller of GetFirstPod has given up on the call
    \* updateEnv and UpdateResourceEnv
    epc,        \* position of their caller: "idle", "once", "twice", "restarted"
    existing,   \* updateEnv's existing []corev1.EnvVar
    env,        \* updateEnv's env []corev1.EnvVar: the variables to set
    remove,     \* updateEnv's remove []string, as the set sets.NewString makes of it
    out,        \* what updateEnv(existing, env, remove) returned
    again,      \* what updateEnv(out, env, remove) returned
    object,     \* the object handed to UpdateResourceEnv
    updated,    \* that object when UpdateResourceEnv is over
    \* the resource merger (set resources)
    mpc,        \* position of its caller: "idle", "merged"
    workload,   \* the workload handed to it: [kind, containers]
    options,    \* SetResourcesOptions: [patterns, limits, requests]
    merged      \* what it returned: [containers, err]

svars == <<pc, gk, viewer, viewerErr, obj, revision, res>>
lvars == <<lpc, cluster, log, sortKey, timeout, podList, w, watchCalls, elapsed,
           seen, ret>>
cvars == <<cancelled>>
evars == <<epc, existing, env, remove, out, again, object, updated>>
mvars == <<mpc, workload, options, merged>>
vars == <<svars, lvars, cvars, evars, mvars>>

\* what the status viewers, and what GetFirstPod, leave alone
notStatus == <<lvars, cvars, evars, mvars>>
notLocator == <<svars, cvars, evars, mvars>>
notEnv == <<svars, lvars, cvars, mvars>>
notMerger == <<svars, lvars, cvars, evars>>

----------------------------------------------------------------------------
(* Bounds of the model *)

\* replica counts range over 0..MaxReplicas
MaxReplicas == 2
\* metadata.generation and status.observedGeneration range over 0..MaxGen
MaxGen == 2
\* the target revision and the revision annotation range over 0..MaxRevision
MaxRevision == 1

\* an environment list has at most MaxEnv variables
MaxEnv == 2

\* the pods that may match the selector are 1..MaxPods
MaxPods == 3
\* at most MaxEvents pod events happen in the cluster during a call
MaxEvents == 2
\* the timeout ranges over 0..MaxTimeout units of time
MaxTimeout == 2
\* at most MaxSkipped error events are delivered on a watch
MaxSkipped == 1

\* a nil pointer (Spec.Replicas, RollingUpdate.Partition, UpdateStrategy.Partition)
Nil == -1

Counts == 0 .. MaxReplicas
OptCounts == {Nil} \cup Counts
Generations == 0 .. MaxGen
TargetRevisions == 0 .. MaxRevision
\* status.currentRevision / status.updateRevision are opaque revision names
RevisionNames == {"rev-a", "rev-b"}

----------------------------------------------------------------------------
(* Results of Status: (string, bool, error) *)

NoMsg == [id |-> "", a |-> 0, b |-> 0, rev |-> ""]
Msg(id, a, b) == [id |-> id, a |-> a, b |-> b, rev |-> ""]
MsgRev(id, a, rev) == [id |-> id, a |-> a, b |-> 0, rev |-> rev]

Result(msg, done, err) == [msg |-> msg, done |-> done, err |-> err]
NoResult == Result(NoMsg, FALSE, "unset")

----------------------------------------------------------------------------
(* StatusViewerFor: the switch on schema.GroupKind *)

Groups == {"extensions", "apps", "apps.kruise.io", "batch", ""}
Kinds == {"Deployment", "DaemonSet", "StatefulSet", "CloneSet",
          "Job", "ReplicaSet", "ReplicationController"}
GroupKinds == [group : Groups, kind : Kinds]

GroupKind(group, kind) == [group |-> group, kind |-> kind]

\* mutant: the switch keyed on the kind's name alone
StatusViewerFor_KindOnly(kind) ==
    CASE kind.kind = "Deployment"
           -> [viewer |-> "DeploymentStatusViewer", err |-> FALSE]
      [] kind.kind = "DaemonSet"
           -> [viewer |-> "DaemonSetStatusViewer", err |-> FALSE]
      [] kind.kind = "StatefulSet" /\ kind.group # "apps.kruise.io"
           -> [viewer |-> "StatefulSetStatusViewer", err |-> FALSE]
      [] kind.kind = "CloneSet"
           -> [viewer |-> "CloneSetStatusViewer", err |-> FALSE]
      [] kind.kind = "StatefulSet" /\ kind.group = "apps.kruise.io"
           -> [viewer |-> "AdvancedStatefulSetStatusViewer", err |-> FALSE]
      [] OTHER
           -> [viewer |-> "none", err |-> TRUE]

StatusViewerFor(kind) ==
    CASE kind \in {GroupKind("extensions", "Deployment"), GroupKind("apps", "Deployment")}
           -> [viewer |-> "DeploymentStatusViewer", err |-> FALSE]
      [] kind \in {GroupKind("extensions", "DaemonSet"), GroupKind("apps", "DaemonSet")}
           -> [viewer |-> "DaemonSetStatusViewer", err |-> FALSE]
      [] kind = GroupKind("apps", "StatefulSet")
           -> [viewer |-> "StatefulSetStatusViewer", err |-> FALSE]
      [] kind = GroupKind("apps.kruise.io", "CloneSet")
           -> [viewer |-> "CloneSetStatusViewer", err |-> FALSE]
      [] kind = GroupKind("apps.kruise.io", "StatefulSet")
           -> [viewer |-> "AdvancedStatefulSetStatusViewer", err |-> FALSE]
      [] OTHER
           -> [viewer |-> "none", err |-> TRUE]

----------------------------------------------------------------------------
(* runtime.DefaultUnstructuredConverter.FromUnstructured: an object that     *)
(* does not convert to the viewer's type makes Status return the conversion  *)
(* error before it reads anything.                                           *)

Undecodable == [decoded |-> FALSE]

ConvertError == Result(NoMsg, FALSE, "ConvertError")

----------------------------------------------------------------------------
(* DeploymentStatusViewer.Status *)

\* The decoded appsv1.Deployment, as far as Status reads it.  revParses and
\* rev are what deploymentutil.Revision makes of the revision annotation
\* (absent: 0 and no error; unparsable: an error).  progressTimedOut: the
\* Progressing condition is present with reason TimedOutReason.
Deployments ==
    [decoded : {TRUE},
     generation : Generations, observedGeneration : Generations,
     replicas : OptCounts, updatedReplicas : Counts, statusReplicas : Counts,
     availableReplicas : Counts, progressTimedOut : BOOLEAN,
     revParses : BOOLEAN, rev : TargetRevisions]

\* mutant: only a newer running revision is a mismatch
DeploymentRevisionCheck_Older(d, rev) ==
    IF rev > 0
      THEN IF ~d.revParses THEN "CannotGetRevision"
           ELSE IF rev < d.rev THEN "RevisionMismatch"
           ELSE "nil"
    ELSE "nil"

DeploymentRevisionCheck(d, rev) ==
    IF rev > 0
      THEN IF ~d.revParses THEN "CannotGetRevision"
           ELSE IF rev # d.rev THEN "RevisionMismatch"
           ELSE "nil"
    ELSE "nil"

DeploymentObserved(d) == d.generation <= d.observedGeneration

\* mutant: old replicas pending termination checked first
DeploymentReplicaChecks_Reordered(d) ==
    IF d.statusReplicas > d.updatedReplicas
      THEN Result(Msg("DeploymentOldReplicasPending",
                      d.statusReplicas - d.updatedReplicas, 0), FALSE, "nil")
    ELSE IF d.replicas # Nil /\ d.updatedReplicas < d.replicas
      THEN Result(Msg("DeploymentNewReplicasUpdated", d.updatedReplicas, d.replicas),
                  FALSE, "nil")
    ELSE IF d.availableReplicas < d.updatedReplicas
      THEN Result(Msg("DeploymentUpdatedReplicasAvailable",
                      d.availableReplicas, d.updatedReplicas), FALSE, "nil")
    ELSE Result(Msg("DeploymentRolledOut", 0, 0), TRUE, "nil")

DeploymentReplicaChecks(d) ==
    IF d.replicas # Nil /\ d.updatedReplicas < d.replicas
      THEN Result(Msg("DeploymentNewReplicasUpdated", d.updatedReplicas, d.replicas),
                  FALSE, "nil")
    ELSE IF d.statusReplicas > d.updatedReplicas
      THEN Result(Msg("DeploymentOldReplicasPending",
                      d.statusReplicas - d.updatedReplicas, 0), FALSE, "nil")
    ELSE IF d.availableReplicas < d.updatedReplicas
      THEN Result(Msg("DeploymentUpdatedReplicasAvailable",
                      d.availableReplicas, d.updatedReplicas), FALSE, "nil")
    ELSE Result(Msg("DeploymentRolledOut", 0, 0), TRUE, "nil")

DeploymentStatus(d, rev) ==
    IF ~d.decoded
      THEN ConvertError
    ELSE IF DeploymentRevisionCheck(d, rev) # "nil"
      THEN Result(NoMsg, FALSE, DeploymentRevisionCheck(d, rev))
    ELSE IF DeploymentObserved(d)
      THEN IF d.progressTimedOut
             THEN Result(NoMsg, FALSE, "ProgressDeadlineExceeded")
           ELSE DeploymentReplicaChecks(d)
    ELSE Result(Msg("DeploymentWaitingObserved", 0, 0), FALSE, "nil")

----------------------------------------------------------------------------
(* DaemonSetStatusViewer.Status *)

DaemonSetStrategies == {"RollingUpdate", "OnDelete"}

DaemonSets ==
    [decoded : {TRUE},
     generation : Generations, observedGeneration : Generations,
     strategyType : DaemonSetStrategies,
     desiredNumberScheduled : Counts, updatedNumberScheduled : Counts,
     numberAvailable : Counts]

\* return "", true, fmt.Errorf("rollout status is only available for ...")
UnsupportedStrategy == Result(NoMsg, TRUE, "UnsupportedStrategy")

\* mutant: the comparison of the generations the other way round
DaemonSetObserved_Flipped(daemon) == daemon.observedGeneration <= daemon.generation

DaemonSetObserved(daemon) == daemon.generation <= daemon.observedGeneration

\* the revision is ignored: DaemonSets have no history
DaemonSetStatus(daemon, rev) ==
    IF ~daemon.decoded
      THEN ConvertError
    ELSE IF daemon.strategyType # "RollingUpdate"
      THEN UnsupportedStrategy
    ELSE IF DaemonSetObserved(daemon)
      THEN IF daemon.updatedNumberScheduled < daemon.desiredNumberScheduled
             THEN Result(Msg("DaemonSetNewPodsUpdated", daemon.updatedNumberScheduled,
                             daemon.desiredNumberScheduled), FALSE, "nil")
           ELSE IF daemon.numberAvailable < daemon.desiredNumberScheduled
             THEN Result(Msg("DaemonSetUpdatedPodsAvailable", daemon.numberAvailable,
                             daemon.desiredNumberScheduled), FALSE, "nil")
           ELSE Result(Msg("DaemonSetRolledOut", 0, 0), TRUE, "nil")
    ELSE Result(Msg("DaemonSetWaitingObserved", 0, 0), FALSE, "nil")

----------------------------------------------------------------------------
(* StatefulSetStatusViewer.Status *)

StatefulSetStrategies == {"RollingUpdate", "OnDelete"}

\* rollingUpdate: whether Spec.UpdateStrategy.RollingUpdate is non-nil;
\* partition: RollingUpdate.Partition (Nil when the pointer, or the
\* sub-policy holding it, is nil).  The success message's CurrentReplicas
\* argument is read by no check and is left out of the message.
RollingUpdates ==
    [rollingUpdate : {FALSE}, partition : {Nil}]
      \cup [rollingUpdate : {TRUE}, partition : OptCounts]

StatefulSets ==
    {[decoded |-> TRUE,
      generation |-> g, observedGeneration |-> og, strategyType |-> st,
      replicas |-> r, readyReplicas |-> rr, updatedReplicas |-> ur,
      availableReplicas |-> ar,
      rollingUpdate |-> ru.rollingUpdate, partition |-> ru.partition,
      currentRevision |-> cr, updateRevision |-> upr] :
        g \in Generations, og \in Generations, st \in StatefulSetStrategies,
        r \in OptCounts, rr \in Counts, ur \in Counts, ar \in Counts,
        ru \in RollingUpdates, cr \in RevisionNames, upr \in RevisionNames}

StatefulSetNotObserved(sts) ==
    sts.observedGeneration = 0 \/ sts.generation > sts.observedGeneration

\* mutant: <= for <
StatefulSetPartitionShortfall_Inclusive(sts) ==
    /\ sts.replicas # Nil
    /\ sts.partition # Nil
    /\ sts.updatedReplicas <= sts.replicas - sts.partition

\* mutant: the partition is not subtracted
StatefulSetPartitionShortfall_NoPartition(sts) ==
    /\ sts.replicas # Nil
    /\ sts.partition # Nil
    /\ sts.updatedReplicas < sts.replicas

StatefulSetPartitionShortfall(sts) ==
    /\ sts.replicas # Nil
    /\ sts.partition # Nil
    /\ sts.updatedReplicas < sts.replicas - sts.partition

\* the revision is not read
StatefulSetStatus(sts, rev) ==
    IF ~sts.decoded
      THEN ConvertError
    ELSE IF sts.strategyType # "RollingUpdate"
      THEN UnsupportedStrategy
    ELSE IF StatefulSetNotObserved(sts)
      THEN Result(Msg("StatefulSetWaitingObserved", 0, 0), FALSE, "nil")
    ELSE IF sts.replicas # Nil /\ sts.readyReplicas < sts.replicas
      THEN Result(Msg("StatefulSetWaitingReady", sts.replicas - sts.readyReplicas, 0),
                  FALSE, "nil")
    ELSE IF sts.strategyType = "RollingUpdate" /\ sts.rollingUpdate
      THEN IF StatefulSetPartitionShortfall(sts)
             THEN Result(Msg("StatefulSetPartitionedWaiting", sts.updatedReplicas,
                             sts.replicas - sts.partition), FALSE, "nil")
           ELSE Result(Msg("StatefulSetPartitionedComplete", sts.updatedReplicas, 0),
                       TRUE, "nil")
    ELSE IF sts.updateRevision # sts.currentRevision
      THEN Result(MsgRev("StatefulSetWaitingRevision", sts.updatedReplicas,
                         sts.updateRevision), FALSE, "nil")
    ELSE Result(MsgRev("StatefulSetComplete", 0, sts.currentRevision), TRUE, "nil")

----------------------------------------------------------------------------
(* CloneSetStatusViewer.Status *)

CloneSetStrategies == {"ReCreate", "InPlaceIfPossible", "InPlaceOnly"}

\* partition: UpdateStrategy.Partition.IntVal, Nil for a nil pointer (a
\* percentage string has IntVal 0).  currentRevision is read by no check.
CloneSets ==
    [decoded : {TRUE},
     generation : Generations, observedGeneration : Generations,
     strategyType : CloneSetStrategies,
     replicas : OptCounts, updatedReplicas : Counts, readyReplicas : Counts,
     availableReplicas : Counts, partition : OptCounts,
     currentRevision : RevisionNames, updateRevision : RevisionNames]

CloneSetInPlace(cs) == cs.strategyType \in {"InPlaceOnly", "InPlaceIfPossible"}

\* mutant: <= for <
CloneSetPartitionShortfall_Inclusive(cs) ==
    /\ CloneSetInPlace(cs)
    /\ cs.replicas # Nil
    /\ cs.partition # Nil
    /\ cs.updatedReplicas <= cs.replicas - cs.partition

CloneSetPartitionShortfall(cs) ==
    /\ CloneSetInPlace(cs)
    /\ cs.replicas # Nil
    /\ cs.partition # Nil
    /\ cs.updatedReplicas < cs.replicas - cs.partition

\* mutant: only a status that was never written counts as not observed
CloneSetNotObserved_NeverWritten(cs) == cs.observedGeneration = 0

CloneSetNotObserved(cs) ==
    cs.observedGeneration = 0 \/ cs.generation > cs.observedGeneration

CloneSetNotReady(cs) == cs.replicas # Nil /\ cs.readyReplicas < cs.replicas

\* the revision is not read
CloneSetStatus(cs, rev) ==
    IF ~cs.decoded
      THEN ConvertError
    ELSE IF CloneSetPartitionShortfall(cs)
      THEN Result(Msg("CloneSetPartitionedWaiting", cs.updatedReplicas,
                      cs.replicas - cs.partition), FALSE, "nil")
    ELSE IF CloneSetNotObserved(cs)
      THEN Result(Msg("CloneSetWaitingObserved", 0, 0), FALSE, "nil")
    ELSE IF CloneSetNotReady(cs)
      THEN Result(Msg("CloneSetWaitingReady", cs.replicas - cs.readyReplicas, 0),
                  FALSE, "nil")
    ELSE Result(MsgRev("CloneSetComplete", cs.availableReplicas, cs.updateRevision),
                TRUE, "nil")

----------------------------------------------------------------------------
(* AdvancedStatefulSetStatusViewer.Status *)

AdvancedStatefulSets ==
    {[decoded |-> TRUE,
      generation |-> g, observedGeneration |-> og, strategyType |-> st,
      replicas |-> r, readyReplicas |-> rr, updatedReplicas |-> ur,
      availableReplicas |-> ar,
      rollingUpdate |-> ru.rollingUpdate, partition |-> ru.partition,
      currentRevision |-> cr, updateRevision |-> upr] :
        g \in Generations, og \in Generations, st \in StatefulSetStrategies,
        r \in OptCounts, rr \in Counts, ur \in Counts, ar \in Counts,
        ru \in RollingUpdates, cr \in RevisionNames, upr \in RevisionNames}

\* asts.Spec.UpdateStrategy.RollingUpdate.Partition is read, with no nil
\* check of RollingUpdate, once the type is RollingUpdate and Replicas is
\* set: a nil RollingUpdate is a nil pointer dereference there.
AdvancedStatefulSetPanics(asts) ==
    /\ asts.decoded
    /\ asts.strategyType = "RollingUpdate"
    /\ asts.replicas # Nil
    /\ ~asts.rollingUpdate

AdvancedStatefulSetPartitionShortfall(asts) ==
    /\ asts.strategyType = "RollingUpdate"
    /\ asts.replicas # Nil
    /\ asts.partition # Nil
    /\ asts.updatedReplicas < asts.replicas - asts.partition

AdvancedStatefulSetNotObserved(asts) ==
    asts.observedGeneration = 0 \/ asts.generation > asts.observedGeneration

\* the revision is not read; the result when Status does not panic
AdvancedStatefulSetStatus(asts, rev) ==
    IF ~asts.decoded
      THEN ConvertError
    ELSE IF AdvancedStatefulSetPartitionShortfall(asts)
      THEN Result(Msg("AdvancedStatefulSetPartitionedWaiting", asts.updatedReplicas,
                      asts.replicas - asts.partition), FALSE, "nil")
    ELSE IF AdvancedStatefulSetNotObserved(asts)
      THEN Result(Msg("AdvancedStatefulSetWaitingObserved", 0, 0), FALSE, "nil")
    ELSE IF asts.replicas # Nil /\ asts.readyReplicas < asts.replicas
      THEN Result(Msg("AdvancedStatefulSetWaitingReady",
                      asts.replicas - asts.readyReplicas, 0), FALSE, "nil")
    ELSE Result(MsgRev("AdvancedStatefulSetComplete", asts.availableReplicas,
                       asts.updateRevision), TRUE, "nil")

----------------------------------------------------------------------------
(* The caller: StatusViewerFor, then Status of the viewer it returned *)

StatusInit ==
    /\ pc = "idle"
    /\ gk = GroupKind("", "")
    /\ viewer = "none"
    /\ viewerErr = FALSE
    /\ obj = Undecodable
    /\ revision = 0
    /\ res = NoResult

Resolve ==
    /\ pc = "idle"
    /\ \E k \in GroupKinds :
         /\ gk' = k
         /\ viewer' = StatusViewerFor(k).viewer
         /\ viewerErr' = StatusViewerFor(k).err
         /\ pc' = IF StatusViewerFor(k).err THEN "done" ELSE "resolved"
    /\ UNCHANGED <<obj, revision, res>>
    /\ UNCHANGED notStatus

CallDeploymentStatus ==
    /\ pc = "resolved"
    /\ viewer = "DeploymentStatusViewer"
    /\ \E d \in Deployments \cup {Undecodable}, rev \in TargetRevisions :
         /\ obj' = d
         /\ revision' = rev
         /\ res' = DeploymentStatus(d, rev)
    /\ pc' = "done"
    /\ UNCHANGED <<gk, viewer, viewerErr>>
    /\ UNCHANGED notStatus

CallDaemonSetStatus ==
    /\ pc = "resolved"
    /\ viewer = "DaemonSetStatusViewer"
    /\ \E daemon \in DaemonSets \cup {Undecodable}, rev \in TargetRevisions :
         /\ obj' = daemon
         /\ revision' = rev
         /\ res' = DaemonSetStatus(daemon, rev)
    /\ pc' = "done"
    /\ UNCHANGED <<gk, viewer, viewerErr>>
    /\ UNCHANGED notStatus

CallStatefulSetStatus ==
    /\ pc = "resolved"
    /\ viewer = "StatefulSetStatusViewer"
    /\ \E sts \in StatefulSets \cup {Undecodable}, rev \in TargetRevisions :
         /\ obj' = sts
         /\ revision' = rev
         /\ res' = StatefulSetStatus(sts, rev)
    /\ pc' = "done"
    /\ UNCHANGED <<gk, viewer, viewerErr>>
    /\ UNCHANGED notStatus

CallCloneSetStatus ==
    /\ pc = "resolved"
    /\ viewer = "CloneSetStatusViewer"
    /\ \E cs \in CloneSets \cup {Undecodable}, rev \in TargetRevisions :
         /\ obj' = cs
         /\ revision' = rev
         /\ res' = CloneSetStatus(cs, rev)
    /\ pc' = "done"
    /\ UNCHANGED <<gk, viewer, viewerErr>>
    /\ UNCHANGED notStatus

\* A panic unwinds the caller: nothing is returned.
CallAdvancedStatefulSetStatus ==
    /\ pc = "resolved"
    /\ viewer = "AdvancedStatefulSetStatusViewer"
    /\ \E asts \in AdvancedStatefulSets \cup {Undecodable}, rev \in TargetRevisions :
         /\ obj' = asts
         /\ revision' = rev
         /\ IF AdvancedStatefulSetPanics(asts)
              THEN /\ res' = NoResult
                   /\ pc' = "panicked"
              ELSE /\ res' = AdvancedStatefulSetStatus(asts, rev)
                   /\ pc' = "done"
    /\ UNCHANGED <<gk, viewer, viewerErr>>
    /\ UNCHANGED notStatus

\* The call is over; the next one starts from nothing (no state is kept
\* between invocations).
Return ==
    /\ pc \in {"done", "panicked"}
    /\ pc' = "idle"
    /\ gk' = GroupKind("", "")
    /\ viewer' = "none"
    /\ viewerErr' = FALSE
    /\ obj' = Undecodable
    /\ revision' = 0
    /\ res' = NoResult
    /\ UNCHANGED notStatus

Next ==
    \/ Resolve
    \/ CallDeploymentStatus
    \/ CallDaemonSetStatus
    \/ CallStatefulSetStatus
    \/ CallCloneSetStatus
    \/ CallAdvancedStatefulSetStatus
    \/ Return

----------------------------------------------------------------------------
(* GetFirstPod *)

PodIds == 1 .. MaxPods
NoPod == 0
\* (a negative timeout is taken as 0 by ContextWithOptionalTimeout)
Timeouts == 0 .. MaxTimeout
\* the keys the caller's ordering compares pods by; pods may tie
SortKeys == [PodIds -> {0, 1}]
EventTypes == {"ADDED", "MODIFIED", "DELETED"}

Event(type, pod) == [type |-> type, pod |-> pod]

Returned(pod, count, err) == [pod |-> pod, count |-> count, err |-> err]
NotReturned == Returned(NoPod, 0, "unset")
NoWatch == [state |-> "none", resourceVersion |-> 0, cursor |-> 0, openedAt |-> 0]
NoList == [items |-> <<>>, resourceVersion |-> 0]
NothingSeen == [qualifying |-> FALSE, closed |-> FALSE, skipped |-> 0]

\* PodList.Items: the matching pods, in the order of their names
RECURSIVE Items(_)
Items(ps) ==
    IF ps = {} THEN <<>>
    ELSE LET p == CHOOSE x \in ps : \A y \in ps : x <= y
         IN  <<p>> \o Items(ps \ {p})

Range(seq) == {seq[i] : i \in 1 .. Len(seq)}

\* mutant: the pods are left in the order of the list
Sorted_Unsorted(pods, key) == {pods}

\* sort.Sort(sortBy(pods)): some permutation of pods in the order of Less;
\* sort.Sort is not stable, so pods that tie may come in any order
Sorted(pods, key) ==
    {sq \in [1 .. Len(pods) -> Range(pods)] :
        /\ Range(sq) = Range(pods)
        /\ \A i \in 1 .. Len(sq) - 1 : key[sq[i]] <= key[sq[i + 1]]}

\* return pods[0], len(podList.Items), nil
FirstOf(sorted, items) == Returned(sorted[1], Len(items), "nil")

\* condition: event.Type == watch.Added || event.Type == watch.Modified
condition(event) == event.type \in {"ADDED", "MODIFIED"}

\* mutant: the shortest timeout sets no deadline either
HasDeadline_OffByOne(t) == t > 1

\* watchtools.ContextWithOptionalTimeout: the context gets a deadline only
\* for a timeout > 0
HasDeadline(t) == t > 0

\* mutant: the watch starts after the first change that follows the list
WatchResourceVersion_Later(list) == list.resourceVersion + 1

\* options.ResourceVersion = podList.ResourceVersion
WatchResourceVersion(list) == list.resourceVersion

\* mutant: the watch is left as it is when the call returns
Stop_NotDeferred(watch) == watch

\* defer w.Stop(): runs on every return after the watch was opened
Stop(watch) == [watch EXCEPT !.state = "stopped"]

\* GetFirstPod is called against a cluster with some pods matching the
\* selector.  Its arguments sortBy and timeout are drawn where the code
\* first reads them: sortBy for a list that is not empty, timeout when the
\* context of the wait is made.
NoSortKey == [p \in PodIds |-> 0]

LocatorInit ==
    /\ lpc = "start"
    /\ cluster \in SUBSET PodIds
    /\ log = <<>>
    /\ sortKey = NoSortKey
    /\ timeout = 0
    /\ podList = NoList
    /\ w = NoWatch
    /\ watchCalls = 0
    /\ elapsed = 0
    /\ seen = NothingSeen
    /\ ret = NotReturned
    /\ cancelled = FALSE

\* A pod matching the selector is created, changed or deleted while the call
\* is under way; every change gets the next resource version.
ClusterChange ==
    /\ lpc # "returned"
    /\ Len(log) < MaxEvents
    /\ \E p \in PodIds, t \in EventTypes :
         /\ t = "ADDED" => p \notin cluster
         /\ t \in {"MODIFIED", "DELETED"} => p \in cluster
         /\ cluster' = IF t = "ADDED" THEN cluster \cup {p}
                       ELSE IF t = "DELETED" THEN cluster \ {p}
                       ELSE cluster
         /\ log' = Append(log, Event(t, p))
    /\ UNCHANGED <<lpc, sortKey, timeout, podList, w, watchCalls, elapsed, seen, ret>>
    /\ UNCHANGED notLocator

\* client.Pods(namespace).List, and the return of the first pod when the
\* list is not empty
List ==
    /\ lpc = "start"
    /\ \/ /\ ret' = Returned(NoPod, 0, "ListError")
          /\ lpc' = "returned"
          /\ UNCHANGED <<podList, sortKey>>
       \/ /\ podList' = [items |-> Items(cluster), resourceVersion |-> Len(log)]
          /\ IF Len(Items(cluster)) > 0
               THEN /\ \E key \in SortKeys :
                         /\ sortKey' = key
                         /\ \E sorted \in Sorted(Items(cluster), key) :
                              ret' = FirstOf(sorted, Items(cluster))
                    /\ lpc' = "returned"
               ELSE /\ lpc' = "listed"
                    /\ UNCHANGED <<ret, sortKey>>
    /\ UNCHANGED <<cluster, log, timeout, w, watchCalls, elapsed, seen>>
    /\ UNCHANGED notLocator

\* client.Pods(namespace).Watch from the list's resource version, and the
\* context of the wait.  The watch delivers the changes after that resource
\* version, those made before it was opened (openedAt is the cluster's
\* resource version then) included.
Watch ==
    /\ lpc = "listed"
    /\ watchCalls' = watchCalls + 1
    /\ \/ /\ ret' = Returned(NoPod, 0, "WatchError")
          /\ lpc' = "returned"
          /\ UNCHANGED <<w, timeout>>
       \/ /\ w' = [state |-> "open",
                   resourceVersion |-> WatchResourceVersion(podList),
                   cursor |-> WatchResourceVersion(podList) + 1,
                   openedAt |-> Len(log)]
          /\ timeout' \in Timeouts
          /\ lpc' = "watching"
          /\ UNCHANGED ret
    /\ elapsed' = 0
    /\ UNCHANGED <<cluster, log, sortKey, podList, seen>>
    /\ UNCHANGED notLocator

\* UntilWithoutRetry receives the next event after the watch's resource
\* version; an added or modified pod ends the wait (return pod, 1, nil)
ReceiveEvent ==
    /\ lpc = "watching"
    /\ w.cursor <= Len(log)
    /\ LET event == log[w.cursor]
       IN  IF condition(event)
             THEN /\ ret' = Returned(event.pod, 1, "nil")
                  /\ lpc' = "returned"
                  /\ w' = Stop([w EXCEPT !.cursor = @ + 1])
                  /\ seen' = [seen EXCEPT !.qualifying = TRUE]
             ELSE /\ w' = [w EXCEPT !.cursor = @ + 1]
                  /\ UNCHANGED <<ret, lpc, seen>>
    /\ UNCHANGED <<cluster, log, sortKey, timeout, podList, watchCalls, elapsed>>
    /\ UNCHANGED notLocator

\* an event of type watch.Error (its object is a Status): condition is
\* false for it and the wait goes on
ReceiveErrorEvent ==
    /\ lpc = "watching"
    /\ seen.skipped < MaxSkipped
    /\ seen' = [seen EXCEPT !.skipped = @ + 1]
    /\ UNCHANGED <<lpc, cluster, log, sortKey, timeout, podList, w, watchCalls,
                   elapsed, ret>>
    /\ UNCHANGED notLocator

\* an added or modified event whose object is not a *corev1.Pod
ReceiveNotAPod ==
    /\ lpc = "watching"
    /\ ret' = Returned(NoPod, 0, "NotAPodEvent")
    /\ lpc' = "returned"
    /\ w' = Stop(w)
    /\ seen' = [seen EXCEPT !.qualifying = TRUE]
    /\ UNCHANGED <<cluster, log, sortKey, timeout, podList, watchCalls, elapsed>>
    /\ UNCHANGED notLocator

\* the result channel of the watch is closed: ErrWatchClosed
ReceiveClosed ==
    /\ lpc = "watching"
    /\ ret' = Returned(NoPod, 0, "ErrWatchClosed")
    /\ lpc' = "returned"
    /\ w' = Stop(w)
    /\ seen' = [seen EXCEPT !.closed = TRUE]
    /\ UNCHANGED <<cluster, log, sortKey, timeout, podList, watchCalls, elapsed>>
    /\ UNCHANGED notLocator

\* time passes while the wait has a deadline ahead
Tick ==
    /\ lpc = "watching"
    /\ HasDeadline(timeout)
    /\ elapsed < timeout
    /\ elapsed' = elapsed + 1
    /\ UNCHANGED <<lpc, cluster, log, sortKey, timeout, podList, w, watchCalls,
                   seen, ret>>
    /\ UNCHANGED notLocator

\* ctx.Done() at the deadline: wait.ErrWaitTimeout
DeadlineExceeded ==
    /\ lpc = "watching"
    /\ HasDeadline(timeout)
    /\ elapsed >= timeout
    /\ ret' = Returned(NoPod, 0, "ErrWaitTimeout")
    /\ lpc' = "returned"
    /\ w' = Stop(w)
    /\ UNCHANGED <<cluster, log, sortKey, timeout, podList, watchCalls, elapsed, seen>>
    /\ UNCHANGED notLocator

\* The caller gives up while GetFirstPod waits on the watch, before the
\* deadline of the wait.  GetFirstPod takes no context: List and Watch are
\* called with context.TODO() and the context of the wait is derived from
\* context.Background(), so nothing in the call is told.
Cancel ==
    /\ lpc = "watching"
    /\ ~cancelled
    /\ HasDeadline(timeout) => elapsed < timeout
    /\ cancelled' = TRUE
    /\ UNCHANGED <<svars, lvars, evars, mvars>>

LocatorNext ==
    \/ ClusterChange
    \/ List
    \/ Watch
    \/ ReceiveEvent
    \/ ReceiveErrorEvent
    \/ ReceiveNotAPod
    \/ ReceiveClosed
    \/ Tick
    \/ DeadlineExceeded

----------------------------------------------------------------------------
(* updateEnv, findEnv, UpdateResourceEnv *)

RestartedEnv == "RESTARTED_AT"

EnvNames == {"A", "B", RestartedEnv}
\* values; time.Now().Format(time.RFC3339) is one of them
EnvValues == {"v1", "v2"}

\* corev1.EnvVar, and the zero value corev1.EnvVar{}
EnvVars == [name : EnvNames, value : EnvValues]
NoEnvVar == [name |-> "", value |-> ""]
EnvVar(name, value) == [name |-> name, value |-> value]

EnvLists == UNION {[1 .. n -> EnvVars] : n \in 0 .. MaxEnv}

\* findEnv returns (corev1.EnvVar, bool): the first e of env with e.Name ==
\* name
RECURSIVE findEnv(_, _)
findEnv(list, name) ==
    IF list = <<>> THEN [e |-> NoEnvVar, ok |-> FALSE]
    ELSE IF Head(list).name = name THEN [e |-> Head(list), ok |-> TRUE]
    ELSE findEnv(Tail(list), name)

\* covered.Has(name)
Has(covered, name) == name \in covered

\* mutant: the name is not recorded as covered
Insert_Forgotten(covered, name) == covered

\* covered.Insert(name)
Insert(covered, name) == covered \cup {name}

\* for _, e := range existing { ... }: the loop over the existing variables,
\* from the out and covered it has so far
RECURSIVE updateEnvExisting(_, _, _, _)
updateEnvExisting(rest, adds, o, covered) ==
    IF rest = <<>> THEN [out |-> o, covered |-> covered]
    ELSE LET e == Head(rest)
             newer == findEnv(adds, e.name)
         IN  IF Has(covered, e.name)
               THEN updateEnvExisting(Tail(rest), adds, o, covered)
             ELSE IF newer.ok
               THEN updateEnvExisting(Tail(rest), adds, Append(o, newer.e),
                                      Insert(covered, e.name))
             ELSE updateEnvExisting(Tail(rest), adds, Append(o, e), covered)

\* for _, e := range env { ... }: the loop over the variables to set
RECURSIVE updateEnvAdded(_, _, _)
updateEnvAdded(rest, o, covered) ==
    IF rest = <<>> THEN o
    ELSE LET e == Head(rest)
         IN  IF Has(covered, e.name)
               THEN updateEnvAdded(Tail(rest), o, covered)
             ELSE updateEnvAdded(Tail(rest), Append(o, e), Insert(covered, e.name))

\* mutant: a variable both removed and set is added at the end
updateEnv_RemovedThenAdded(old, adds, removed) ==
    LET first == updateEnvExisting(old, adds, <<>>, removed)
    IN  updateEnvAdded(adds, first.out, first.covered \ removed)

\* covered starts as sets.NewString(remove...)
updateEnv(old, adds, removed) ==
    LET first == updateEnvExisting(old, adds, <<>>, removed)
    IN  updateEnvAdded(adds, first.out, first.covered)

\* The objects handed to UpdateResourceEnv, as far as it reads them: the
\* type of the object and the Env of each container of its pod template.
ObjectTypes == {"CloneSet", "AdvancedStatefulSet", "Deployment"}
ContainerEnvs ==
    {<<>>} \cup {<<e>> : e \in EnvLists}
           \cup {<<e, f>> : e \in EnvLists, f \in {<<>>, <<EnvVar(RestartedEnv, "v1")>>}}
Objects == [type : ObjectTypes, containers : ContainerEnvs]
NoObject == [type |-> "", containers |-> <<>>]

\* addingEnvs: the one variable RESTARTED_AT, with the time of the call
addingEnvs(now) == <<EnvVar(RestartedEnv, now)>>

\* the switch on the object's type: the containers of a CloneSet and of an
\* Advanced StatefulSet get updateEnv(tmp.Env, addingEnvs, []string{}); an
\* object of any other type is left as it is
UpdateResourceEnv(o, now) ==
    IF o.type \in {"CloneSet", "AdvancedStatefulSet"}
      THEN [o EXCEPT !.containers =
              [i \in 1 .. Len(o.containers) |->
                  updateEnv(o.containers[i], addingEnvs(now), {})]]
    ELSE o

EnvIdle ==
    /\ epc = "idle"
    /\ existing = <<>>
    /\ env = <<>>
    /\ remove = {}
    /\ out = <<>>
    /\ again = <<>>
    /\ object = NoObject
    /\ updated = NoObject

CallUpdateEnv ==
    /\ epc = "idle"
    /\ \E old \in EnvLists, adds \in EnvLists, removed \in SUBSET EnvNames :
         /\ existing' = old
         /\ env' = adds
         /\ remove' = removed
         /\ out' = updateEnv(old, adds, removed)
    /\ epc' = "once"
    /\ UNCHANGED <<again, object, updated>>
    /\ UNCHANGED notEnv

\* the same variables and removals applied to the list the first call made
CallUpdateEnvAgain ==
    /\ epc = "once"
    /\ again' = updateEnv(out, env, remove)
    /\ epc' = "twice"
    /\ UNCHANGED <<existing, env, remove, out, object, updated>>
    /\ UNCHANGED notEnv

CallUpdateResourceEnv ==
    /\ epc = "idle"
    /\ \E o \in Objects, now \in EnvValues :
         /\ object' = o
         /\ env' = addingEnvs(now)
         /\ updated' = UpdateResourceEnv(o, now)
    /\ epc' = "restarted"
    /\ UNCHANGED <<existing, remove, out, again>>
    /\ UNCHANGED notEnv

EnvReturn ==
    /\ epc \in {"once", "twice", "restarted"}
    /\ epc' = "idle"
    /\ existing' = <<>>
    /\ env' = <<>>
    /\ remove' = {}
    /\ out' = <<>>
    /\ again' = <<>>
    /\ object' = NoObject
    /\ updated' = NoObject
    /\ UNCHANGED notEnv

EnvNext ==
    \/ CallUpdateEnv
    \/ CallUpdateEnvAgain
    \/ CallUpdateResourceEnv
    \/ EnvReturn

----------------------------------------------------------------------------
(* The resource merger: requested limits and requests merged into the       *)
(* containers a workload's pod template declares.  The tests of package set *)
(* name the workload variants and the options.                              *)

\* the workload variants of TestSetResourcesRemote, and one kind with no
\* pod template
WorkloadVariants ==
    {"extensions/v1beta1 ReplicaSet", "apps/v1beta2 ReplicaSet", "apps/v1 ReplicaSet",
     "extensions/v1beta1 DaemonSet", "apps/v1beta2 DaemonSet", "apps/v1 DaemonSet",
     "extensions/v1beta1 Deployment", "apps/v1beta1 Deployment",
     "apps/v1beta2 Deployment", "apps/v1 Deployment",
     "apps/v1beta1 StatefulSet", "apps/v1beta2 StatefulSet", "apps/v1 StatefulSet",
     "batch/v1 Job", "v1 ReplicationController",
     "apps.kruise.io/v1alpha1 CloneSet", "apps.kruise.io/v1beta1 StatefulSet"}
WorkloadKinds == WorkloadVariants \cup {"v1 Service"}

\* resource dimensions, and the quantity a container declares for one
\* ("": none declared)
Dimensions == {"cpu", "memory"}
NoQuantity == ""
Declared == [cpu : {NoQuantity, "100m"}, memory : {NoQuantity, "256Mi"}]
\* Limits / Requests of the options: "cpu=200m,memory=512Mi", or one of the
\* two dimensions, or nothing
Requested == [cpu : {NoQuantity, "200m"}, memory : {NoQuantity, "512Mi"}]

ContainerNames == {"nginx", "sidecar"}
MergerContainers == [name : ContainerNames, limits : Declared, requests : Declared]
\* the containers of a pod template: their names differ
ContainerLists ==
    {<<>>} \cup {<<c>> : c \in MergerContainers}
           \cup {<<c, d>> : c \in {x \in MergerContainers : x.name = "nginx"},
                            d \in {x \in MergerContainers : x.name = "sidecar"}}

\* ContainerSelector: the patterns, each a container name or the wildcard
Wildcard == "*"
PatternSets == {{Wildcard}, {"nginx"}, {"sidecar"}, {"nginx", "sidecar"}, {"web"}}

Matches(name, pattern) == pattern = Wildcard \/ pattern = name
Selected(container, patterns) == \E pt \in patterns : Matches(container.name, pt)

\* mutant: the requested list replaces the declared one
mergeResources_Replace(declared, requested) == requested

\* every dimension present in the request is overwritten; the others stay
mergeResources(declared, requested) ==
    [d \in Dimensions |->
        IF requested[d] # NoQuantity THEN requested[d] ELSE declared[d]]

mergeContainer(container, opts) ==
    IF Selected(container, opts.patterns)
      THEN [container EXCEPT !.limits = mergeResources(@, opts.limits),
                             !.requests = mergeResources(@, opts.requests)]
    ELSE container

\* the kind registry's container accessor: the variants with a pod template
HasContainerAccessor(kind) == kind \in WorkloadVariants

merge(wl, opts) ==
    IF HasContainerAccessor(wl.kind)
      THEN [containers |-> [i \in 1 .. Len(wl.containers) |->
                               mergeContainer(wl.containers[i], opts)],
            err |-> "nil"]
    ELSE [containers |-> wl.containers, err |-> "NotImplemented"]

NoWorkload == [kind |-> "", containers |-> <<>>]
NoOptions == [patterns |-> {}, limits |-> [d \in Dimensions |-> NoQuantity],
              requests |-> [d \in Dimensions |-> NoQuantity]]
NotMerged == [containers |-> <<>>, err |-> "unset"]

MergerIdle ==
    /\ mpc = "idle"
    /\ workload = NoWorkload
    /\ options = NoOptions
    /\ merged = NotMerged

CallMerge ==
    /\ mpc = "idle"
    /\ \E kind \in WorkloadKinds, cs \in ContainerLists, pts \in PatternSets,
          lim \in Requested, req \in Requested :
         /\ workload' = [kind |-> kind, containers |-> cs]
         /\ options' = [patterns |-> pts, limits |-> lim, requests |-> req]
         /\ merged' = merge(workload', options')
    /\ mpc' = "merged"
    /\ UNCHANGED notMerger

MergerReturn ==
    /\ mpc = "merged"
    /\ mpc' = "idle"
    /\ workload' = NoWorkload
    /\ options' = NoOptions
    /\ merged' = NotMerged
    /\ UNCHANGED notMerger

MergerNext ==
    \/ CallMerge
    \/ MergerReturn

----------------------------------------------------------------------------
(* Specifications *)

\* no call of GetFirstPod is under way
LocatorIdle ==
    /\ lpc = "returned"
    /\ cluster = {}
    /\ log = <<>>
    /\ sortKey = NoSortKey
    /\ timeout = 0
    /\ podList = NoList
    /\ w = NoWatch
    /\ watchCalls = 0
    /\ elapsed = 0
    /\ seen = NothingSeen
    /\ ret = NotReturned
    /\ cancelled = FALSE

Init == StatusInit /\ LocatorIdle /\ EnvIdle /\ MergerIdle

\* the status viewers, called one after the other
Spec == Init /\ [][Next]_vars

LInit == StatusInit /\ LocatorInit /\ EnvIdle /\ MergerIdle

\* GetFirstPod against a changing cluster.  Time passes; the select of the
\* wait takes a case that stays ready: an event the watch has for it, or the
\* context being done once its deadline has passed.  Nothing obliges the
\* cluster to change, or the watch to fail or to be closed.
LocatorSpec ==
    /\ LInit
    /\ [][LocatorNext]_vars
    /\ WF_vars(Tick)
    /\ WF_vars(DeadlineExceeded)
    /\ WF_vars(ReceiveEvent)

\* updateEnv and UpdateResourceEnv, called one after the other
EnvSpec == Init /\ [][EnvNext]_vars

\* the resource merger, called on one workload after the other
MergerSpec == Init /\ [][MergerNext]_vars

CancelNext ==
    \/ LocatorNext
    \/ Cancel

\* GetFirstPod called by a caller that may give up while it waits
CancelSpec == LInit /\ [][CancelNext]_vars


----------------------------------------------------------------------------
(* Vocabulary of the properties *)

\* Status of the resolved viewer has returned (rather than panicked, or
\* never been called because StatusViewerFor failed).
StatusReturned == pc = "done" /\ viewer # "none"

\* Status has returned for a snapshot that converted to the viewer's type.
Evaluated == StatusReturned /\ obj.decoded

IsDeployment == viewer = "DeploymentStatusViewer"
IsDaemonSet == viewer = "DaemonSetStatusViewer"
IsStatefulSet == viewer = "StatefulSetStatusViewer"
IsCloneSet == viewer = "CloneSetStatusViewer"
IsAdvancedStatefulSet == viewer = "AdvancedStatefulSetStatusViewer"

\* the kinds whose status carries currentRevision / updateRevision
HasStatusRevisions == IsStatefulSet \/ IsCloneSet \/ IsAdvancedStatefulSet

\* observedGeneration < generation: the controller has not seen the spec
StaleRead == obj.observedGeneration < obj.generation

\* the generation counts as observed by the viewer of the kind
GenerationObserved ==
    /\ obj.generation <= obj.observedGeneration
    /\ HasStatusRevisions => obj.observedGeneration # 0

\* the kinds that report status for the RollingUpdate strategy only
StrategySupported ==
    (IsDaemonSet \/ IsStatefulSet) => obj.strategyType = "RollingUpdate"

\* a target revision is given and the Deployment's revision cannot be read
\* or is another one
DeploymentRevisionRejected ==
    /\ IsDeployment
    /\ revision > 0
    /\ (~obj.revParses \/ obj.rev # revision)

DesiredReplicas ==
    IF IsDaemonSet THEN obj.desiredNumberScheduled ELSE obj.replicas
UpdatedReplicas ==
    IF IsDaemonSet THEN obj.updatedNumberScheduled ELSE obj.updatedReplicas
AvailableReplicas ==
    IF IsDaemonSet THEN obj.numberAvailable ELSE obj.availableReplicas

\* updatedReplicas == desiredReplicas == availableReplicas on a rolling-update
\* snapshot, with updateRevision == currentRevision where the status has them
Converged ==
    /\ DesiredReplicas # Nil
    /\ UpdatedReplicas = DesiredReplicas
    /\ AvailableReplicas = DesiredReplicas
    /\ (IsDaemonSet \/ IsStatefulSet \/ IsAdvancedStatefulSet)
         => obj.strategyType = "RollingUpdate"
    /\ HasStatusRevisions => obj.updateRevision = obj.currentRevision

----------------------------------------------------------------------------
(* C1 *)

\* C1: for every kind with a status viewer, every snapshot and every target
\* revision, Status never returns an error together with done = true.
C1_ErrorNeverWithDone ==
    StatusReturned => ~(res.err # "nil" /\ res.done)

----------------------------------------------------------------------------
(* C2 *)

\* C2 as stated: every snapshot with observedGeneration < generation gets
\* done = false and no error, whatever its replica counts, update strategy
\* and target revision are.
C2_StaleReadNeverDoneNeverError ==
    (Evaluated /\ StaleRead) => (~res.done /\ res.err = "nil")

\* C2 as amended: every result Status returns for a snapshot with
\* observedGeneration < generation has done = false and no error, whatever
\* the replica counts are, when the strategy is one the kind reports status
\* for (RollingUpdate for DaemonSet and StatefulSet) and the Deployment
\* revision check does not reject the target revision.
C2_StaleReadNotDone ==
    (Evaluated /\ StaleRead /\ StrategySupported /\ ~DeploymentRevisionRejected)
        => (~res.done /\ res.err = "nil")

\* a stale read whose replica counts are all those of a finished rollout
C2_Witness ==
    /\ Evaluated /\ StaleRead /\ StrategySupported /\ ~DeploymentRevisionRejected
    /\ IsDaemonSet
    /\ Converged
    /\ DesiredReplicas > 0
    /\ ~res.done

----------------------------------------------------------------------------
(* C3 *)

\* C3 as stated: every rolling-update snapshot with updatedReplicas ==
\* desiredReplicas == availableReplicas (and updateRevision == currentRevision
\* where the kind has them) gets done = true and no error.
C3_ConvergedIsDone ==
    (Evaluated /\ Converged) => (res.done /\ res.err = "nil")

\* what the viewers require beyond the counts of C3: the generation is
\* observed, the Deployment is not rejected for its revision, has not
\* exceeded its progress deadline and has no old replicas left, and the
\* StatefulSet, CloneSet or Advanced StatefulSet has all replicas ready.
C3_FurtherConditions ==
    /\ GenerationObserved
    /\ ~DeploymentRevisionRejected
    /\ IsDeployment => (~obj.progressTimedOut /\ obj.statusReplicas <= obj.updatedReplicas)
    /\ HasStatusRevisions => obj.readyReplicas >= obj.replicas

\* C3 as amended: such a snapshot gets done = true and no error from every
\* result Status returns when, further, the generation is observed (and is
\* not 0 for StatefulSet, CloneSet and Advanced StatefulSet), the Deployment
\* passes the revision check, has not exceeded its progress deadline and has
\* status.replicas <= updatedReplicas, and readyReplicas >= desiredReplicas
\* for StatefulSet, CloneSet and Advanced StatefulSet.
C3_ConvergedObservedReadyIsDone ==
    (Evaluated /\ Converged /\ C3_FurtherConditions)
        => (res.done /\ res.err = "nil")

C3_Witness ==
    /\ Evaluated /\ Converged /\ C3_FurtherConditions
    /\ IsStatefulSet
    /\ obj.rollingUpdate /\ obj.partition = 0
    /\ DesiredReplicas > 0
    /\ res.done

----------------------------------------------------------------------------
(* C4 *)

\* a StatefulSet with the rolling-update strategy, replicas r, partition p
\* and an observed generation
C4_Case ==
    /\ Evaluated /\ IsStatefulSet
    /\ obj.strategyType = "RollingUpdate"
    /\ obj.replicas # Nil /\ obj.partition # Nil
    /\ GenerationObserved

C4_Decided ==
    IF obj.updatedReplicas >= obj.replicas - obj.partition
      THEN res.done /\ res.err = "nil"
    ELSE res = Result(Msg("StatefulSetPartitionedWaiting", obj.updatedReplicas,
                          obj.replicas - obj.partition), FALSE, "nil")

\* C4 as stated: done = true as soon as updatedReplicas >= r - p, and the
\* partition-shortfall message with done = false while updatedReplicas < r - p.
C4_PartitionDecidesDone == C4_Case => C4_Decided

\* C4 as amended: the same once readyReplicas >= r (all r replicas, updated
\* or not, are ready); before that Status reports the pods still to be ready.
C4_PartitionDecidesDoneWhenReady ==
    (C4_Case /\ obj.readyReplicas >= obj.replicas) => C4_Decided

\* done with p replicas still at the old revision
C4_Witness ==
    /\ C4_Case /\ obj.readyReplicas >= obj.replicas
    /\ obj.partition > 0
    /\ obj.updatedReplicas = obj.replicas - obj.partition
    /\ obj.updatedReplicas > 0
    /\ obj.updateRevision # obj.currentRevision
    /\ res.done

----------------------------------------------------------------------------
(* C5 *)

C5_Case == Evaluated /\ IsDeployment /\ obj.generation <= obj.observedGeneration

\* (a) updatedReplicas < desired replicas
C5_UnmetA == obj.replicas # Nil /\ obj.updatedReplicas < obj.replicas
\* (b) old replicas pending termination
C5_UnmetB == obj.statusReplicas > obj.updatedReplicas
\* (c) availableReplicas < updatedReplicas
C5_UnmetC == obj.availableReplicas < obj.updatedReplicas

C5_FirstUnmetWins ==
    /\ C5_UnmetA =>
         res = Result(Msg("DeploymentNewReplicasUpdated", obj.updatedReplicas,
                          obj.replicas), FALSE, "nil")
    /\ (~C5_UnmetA /\ C5_UnmetB) =>
         res = Result(Msg("DeploymentOldReplicasPending",
                          obj.statusReplicas - obj.updatedReplicas, 0), FALSE, "nil")
    /\ (~C5_UnmetA /\ ~C5_UnmetB /\ C5_UnmetC) =>
         res = Result(Msg("DeploymentUpdatedReplicasAvailable",
                          obj.availableReplicas, obj.updatedReplicas), FALSE, "nil")
    /\ res.done <=> (~C5_UnmetA /\ ~C5_UnmetB /\ ~C5_UnmetC)

\* C5 as stated: for a Deployment whose generation is observed, the first
\* unmet condition in the order (a), (b), (c) chooses the not-done message,
\* and done = true exactly when none is unmet.
C5_DeploymentFirstUnmetWins == C5_Case => C5_FirstUnmetWins

\* C5 as amended: the same when Status returns no error, that is when the
\* revision check does not reject the target revision and the Deployment
\* has not exceeded its progress deadline.
C5_DeploymentFirstUnmetWinsNoError ==
    (C5_Case /\ ~DeploymentRevisionRejected /\ ~obj.progressTimedOut)
        => C5_FirstUnmetWins

\* (a), (b) and (c) all unmet: the message is that of (a)
C5_Witness ==
    /\ C5_Case /\ ~DeploymentRevisionRejected /\ ~obj.progressTimedOut
    /\ obj.replicas = MaxReplicas /\ obj.updatedReplicas = 1
    /\ obj.statusReplicas = MaxReplicas /\ obj.availableReplicas = 0
    /\ res.msg = Msg("DeploymentNewReplicasUpdated", 1, MaxReplicas)
    /\ ~res.done

----------------------------------------------------------------------------
(* C6 *)

\* The numeric revision recorded against the snapshot: the Deployment's
\* revision annotation; the StatefulSet, CloneSet and Advanced StatefulSet
\* objects carry none (their status names revisions by hash), which is
\* revision 0 to deploymentutil.Revision.
SnapshotRevision == IF IsDeployment THEN obj.rev ELSE 0

\* C6 as stated: for Deployment, StatefulSet, CloneSet and Advanced
\* StatefulSet, a target revision > 0 that differs from the snapshot's
\* revision gets an error with done = false.
C6_RevisionMismatchIsError ==
    (Evaluated /\ (IsDeployment \/ HasStatusRevisions)
        /\ revision > 0 /\ revision # SnapshotRevision)
      => (res.err # "nil" /\ ~res.done)

\* C6 as amended: for a Deployment, a target revision > 0 that differs from
\* the Deployment's revision gets the revision-mismatch error with done =
\* false and no message, whatever the generations and replica counts are,
\* and a target revision equal to it gets no revision error; StatefulSet,
\* CloneSet and Advanced StatefulSet do not read the target revision and
\* never return a revision error.
C6_DeploymentRevisionMismatchIsError ==
    /\ (Evaluated /\ IsDeployment /\ revision > 0 /\ obj.revParses
          /\ revision # obj.rev)
         => res = Result(NoMsg, FALSE, "RevisionMismatch")
    /\ (Evaluated /\ IsDeployment /\ revision > 0 /\ obj.revParses
          /\ revision = obj.rev)
         => res.err \notin {"RevisionMismatch", "CannotGetRevision"}
    /\ (Evaluated /\ ~IsDeployment)
         => res.err \notin {"RevisionMismatch", "CannotGetRevision"}

\* a mismatch on a stale read whose replica counts are short: the error wins
C6_Witness ==
    /\ Evaluated /\ IsDeployment
    /\ revision > 0 /\ obj.revParses /\ revision # obj.rev
    /\ StaleRead
    /\ obj.replicas # Nil /\ obj.updatedReplicas < obj.replicas
    /\ res.err = "RevisionMismatch"

----------------------------------------------------------------------------
(* C7 *)

RegisteredGroupKinds ==
    {GroupKind("extensions", "Deployment"), GroupKind("apps", "Deployment"),
     GroupKind("extensions", "DaemonSet"), GroupKind("apps", "DaemonSet"),
     GroupKind("apps", "StatefulSet"), GroupKind("apps.kruise.io", "StatefulSet"),
     GroupKind("apps.kruise.io", "CloneSet")}

\* C7: StatusViewerFor is a closed allow-list keyed on exactly (group, kind):
\* the Deployment viewer for Deployment in extensions and apps, the DaemonSet
\* viewer for DaemonSet in both, distinct viewers for StatefulSet in apps and
\* in the Kruise group, the CloneSet viewer for the Kruise CloneSet, and an
\* error with no viewer for every other (group, kind).
C7_ClosedAllowList ==
    pc # "idle" =>
      /\ IsDeployment <=>
           (gk.kind = "Deployment" /\ gk.group \in {"extensions", "apps"})
      /\ IsDaemonSet <=>
           (gk.kind = "DaemonSet" /\ gk.group \in {"extensions", "apps"})
      /\ IsStatefulSet <=> gk = GroupKind("apps", "StatefulSet")
      /\ IsAdvancedStatefulSet <=> gk = GroupKind("apps.kruise.io", "StatefulSet")
      /\ IsCloneSet <=> gk = GroupKind("apps.kruise.io", "CloneSet")
      /\ viewerErr <=> gk \notin RegisteredGroupKinds
      /\ viewerErr <=> viewer = "none"

\* a registered kind name under a group it is not registered in
C7_Witness ==
    /\ pc = "done"
    /\ gk = GroupKind("apps", "CloneSet")
    /\ viewerErr /\ viewer = "none"

----------------------------------------------------------------------------
(* C8 *)

C8_Case ==
    /\ Evaluated /\ IsCloneSet
    /\ obj.strategyType \in {"InPlaceOnly", "InPlaceIfPossible"}
    /\ obj.replicas # Nil /\ obj.partition # Nil

\* C8: for a CloneSet with an in-place strategy, replicas r and partition p,
\* Status reports the partition shortfall (done = false) exactly when
\* updatedReplicas < r - p; otherwise it goes on to the generation check and
\* then the readiness check, and done = true only if the generation is
\* observed and readyReplicas >= r.
C8_CloneSetPartitionThenGenerationThenReady ==
    C8_Case =>
      /\ (obj.updatedReplicas < obj.replicas - obj.partition) =>
           res = Result(Msg("CloneSetPartitionedWaiting", obj.updatedReplicas,
                            obj.replicas - obj.partition), FALSE, "nil")
      /\ (obj.updatedReplicas >= obj.replicas - obj.partition) =>
           /\ res.msg.id # "CloneSetPartitionedWaiting"
           /\ ~GenerationObserved =>
                res = Result(Msg("CloneSetWaitingObserved", 0, 0), FALSE, "nil")
           /\ (GenerationObserved /\ obj.readyReplicas < obj.replicas) =>
                res = Result(Msg("CloneSetWaitingReady",
                                 obj.replicas - obj.readyReplicas, 0), FALSE, "nil")
      /\ res.done => (GenerationObserved /\ obj.readyReplicas >= obj.replicas)
      /\ res.err = "nil"

\* updatedReplicas = r - p with p > 0: no shortfall, and Status got as far
\* as the readiness check
C8_Witness ==
    /\ C8_Case
    /\ obj.strategyType = "InPlaceIfPossible"
    /\ obj.partition > 0
    /\ obj.updatedReplicas = obj.replicas - obj.partition
    /\ obj.updatedReplicas > 0
    /\ res.msg.id = "CloneSetWaitingReady"

----------------------------------------------------------------------------
(* C9 *)

\* C9: whenever the initial list returns at least one pod, GetFirstPod
\* returns without ever calling Watch, and returns the pod that the caller's
\* ordering ranks first among the listed pods, with the number of listed pods.
C9_ListedPodReturnedWithoutWatch ==
    Len(podList.items) > 0 =>
      /\ lpc = "returned"
      /\ watchCalls = 0 /\ w = NoWatch
      /\ ret.err = "nil"
      /\ ret.count = Len(podList.items)
      /\ ret.pod \in Range(podList.items)
      /\ \A q \in Range(podList.items) : sortKey[ret.pod] <= sortKey[q]

\* several pods listed, and the one returned is not the first of the list
C9_Witness ==
    /\ lpc = "returned"
    /\ Len(podList.items) > 1
    /\ ret.pod # podList.items[1]
    /\ sortKey[ret.pod] < sortKey[podList.items[1]]
    /\ ret.count = Len(podList.items)

----------------------------------------------------------------------------
(* C10 *)

\* C10 as stated: with an empty initial list and no added or modified pod
\* event arriving, the call eventually returns, for every timeout value
\* (zero included): it never blocks forever.
C10_WaitAlwaysEnds ==
    (lpc = "watching") ~> (lpc = "returned")

\* C10 as amended: for every timeout > 0 the wait ends, and it ends with the
\* timeout error unless an added or modified event arrived or the watch's
\* channel was closed first.  (A timeout of zero or less sets no deadline:
\* the wait lasts until an event arrives or the channel is closed.)
C10_WaitWithDeadlineEnds ==
    (lpc = "watching" /\ timeout > 0)
      ~> (/\ lpc = "returned"
          /\ (~seen.qualifying /\ ~seen.closed) => ret.err = "ErrWaitTimeout")

\* the deadline ended a wait that only saw an event it skips
C10_Witness ==
    /\ lpc = "returned"
    /\ timeout > 0 /\ elapsed = timeout
    /\ watchCalls = 1 /\ w.state = "stopped"
    /\ Len(podList.items) = 0
    /\ seen.skipped > 0
    /\ ~seen.qualifying /\ ~seen.closed
    /\ ret = Returned(NoPod, 0, "ErrWaitTimeout")

----------------------------------------------------------------------------
(* C11 *)

\* C11: every watch GetFirstPod opened is stopped before the call returns,
\* on every exit path (a pod event delivered, the timeout, the watch's
\* channel closed, an event whose object is not a pod): no call returns
\* leaving an open watch, and the watch is open all through the wait.
C11_WatchStoppedOnReturn ==
    /\ lpc = "returned" => w.state # "open"
    /\ (lpc = "returned" /\ watchCalls > 0 /\ ret.err # "WatchError")
         => w.state = "stopped"
    /\ lpc = "watching" => w.state = "open"

\* the exit for an event that is not a pod event
C11_Witness ==
    /\ lpc = "returned"
    /\ ret.err = "NotAPodEvent"
    /\ watchCalls = 1
    /\ w.state = "stopped"

----------------------------------------------------------------------------
(* C12 *)

\* what ended the wait, if not the caller giving up
C12_EndedOtherwise == seen.qualifying \/ seen.closed

\* C12: when the caller cancels while GetFirstPod waits on the watch and
\* before the timeout, the call returns with a cancellation error (unless an
\* event or the closing of the watch ended the wait).
C12_CancellationEndsWait ==
    (lpc = "returned" /\ cancelled /\ ~C12_EndedOtherwise)
        => ret.err = "Canceled"

----------------------------------------------------------------------------
(* C13 *)

\* C13: updateEnv is idempotent: for every existing list, list of variables
\* to set and removal set (lists with duplicate names and names both set and
\* removed included), updateEnv(updateEnv(existing, env, remove), env, remove)
\* is updateEnv(existing, env, remove), as an ordered list.
C13_UpdateEnvIdempotent ==
    epc = "twice" => again = out

\* duplicates in the existing list, a name both set and removed, one
\* variable replaced and one added
C13_Witness ==
    /\ epc = "twice"
    /\ Len(existing) = 2 /\ existing[1].name = existing[2].name
    /\ existing[1].value # existing[2].value
    /\ Len(env) = 2 /\ env[1].name # env[2].name
    /\ remove # {} /\ env[1].name \in remove
    /\ env[2].name = existing[1].name /\ env[2].value # existing[1].value
    /\ out # existing /\ out # <<>>
    /\ again = out

----------------------------------------------------------------------------
(* C14 *)

C14_Same(before, after, requested) ==
    \A d \in Dimensions :
        after[d] = IF requested[d] # NoQuantity THEN requested[d] ELSE before[d]

\* C14: after the merge of requested limits and requests into a workload of
\* any supported kind variant, every container whose name matches a pattern
\* (the wildcard matches every container) has exactly the requested quantity
\* for each dimension present in the request and its former quantity for
\* each dimension absent from it; containers matching no pattern, and the
\* order and names of the containers, are unchanged.
C14_RequestedMergedIntoSelected ==
    (mpc = "merged" /\ workload.kind \in WorkloadVariants) =>
      /\ merged.err = "nil"
      /\ Len(merged.containers) = Len(workload.containers)
      /\ \A i \in 1 .. Len(workload.containers) :
           LET before == workload.containers[i]
               after == merged.containers[i]
           IN  /\ after.name = before.name
               /\ IF Wildcard \in options.patterns \/ before.name \in options.patterns
                    THEN /\ C14_Same(before.limits, after.limits, options.limits)
                         /\ C14_Same(before.requests, after.requests, options.requests)
                    ELSE after = before

\* a Kruise workload with two containers of which the pattern names the
\* second, and a request for the cpu limit alone: its memory limit and its
\* requests stay, and so does the first container
C14_Witness ==
    /\ mpc = "merged"
    /\ workload.kind = "apps.kruise.io/v1alpha1 CloneSet"
    /\ Len(workload.containers) = 2
    /\ options.patterns = {"sidecar"}
    /\ options.limits = [cpu |-> "200m", memory |-> NoQuantity]
    /\ options.requests = [cpu |-> NoQuantity, memory |-> NoQuantity]
    /\ workload.containers[2].limits = [cpu |-> "100m", memory |-> "256Mi"]
    /\ workload.containers[1].limits = [cpu |-> "100m", memory |-> NoQuantity]
    /\ merged.containers[2].limits = [cpu |-> "200m", memory |-> "256Mi"]
    /\ merged.containers[2].requests = workload.containers[2].requests
    /\ merged.containers[1] = workload.containers[1]

----------------------------------------------------------------------------
(* C15 *)

C15_WaitingObserved ==
    Result(Msg(CASE IsDeployment -> "DeploymentWaitingObserved"
                 [] IsDaemonSet -> "DaemonSetWaitingObserved"
                 [] IsStatefulSet -> "StatefulSetWaitingObserved"
                 [] IsCloneSet -> "CloneSetWaitingObserved"
                 [] IsAdvancedStatefulSet -> "AdvancedStatefulSetWaitingObserved",
               0, 0), FALSE, "nil")

\* C15 as stated: for every kind with a status viewer, every snapshot with
\* observedGeneration < generation and a supported strategy gets the
\* "waiting for spec update to be observed" message, never a replica-count
\* or partition-shortfall message.  (Stated for the results that carry a
\* message: those with no error.)
C15_StaleCheckBeforeAllOthers ==
    (Evaluated /\ StaleRead /\ StrategySupported /\ res.err = "nil")
        => res = C15_WaitingObserved

\* updatedReplicas is short of replicas - partition, for the strategies the
\* viewers of CloneSet and Advanced StatefulSet look at the partition for
C15_PartitionShort ==
    /\ IsCloneSet \/ IsAdvancedStatefulSet
    /\ IsCloneSet => obj.strategyType \in {"InPlaceOnly", "InPlaceIfPossible"}
    /\ IsAdvancedStatefulSet => obj.strategyType = "RollingUpdate"
    /\ obj.replicas # Nil /\ obj.partition # Nil
    /\ obj.updatedReplicas < obj.replicas - obj.partition

\* C15 as amended: for Deployment (when the revision check does not reject
\* the target revision), DaemonSet and StatefulSet, every result Status
\* returns for such a snapshot is the waiting-to-be-observed message, never
\* a replica-count or partition message; for CloneSet and Advanced
\* StatefulSet the partition check comes first: a snapshot that is short of
\* replicas - partition gets the partition-shortfall message, every other
\* one the waiting-to-be-observed message, never a readiness message.
C15_StaleCheckBeforeReplicaChecks ==
    (Evaluated /\ StaleRead /\ StrategySupported /\ ~DeploymentRevisionRejected)
      => IF C15_PartitionShort
           THEN res = Result(Msg(IF IsCloneSet THEN "CloneSetPartitionedWaiting"
                                 ELSE "AdvancedStatefulSetPartitionedWaiting",
                                 obj.updatedReplicas, obj.replicas - obj.partition),
                             FALSE, "nil")
         ELSE res = C15_WaitingObserved

\* a stale CloneSet that has reached replicas - partition and has no pod
\* ready: the generation check answers, ahead of the readiness check
C15_Witness ==
    /\ Evaluated /\ StaleRead /\ IsCloneSet
    /\ obj.observedGeneration > 0
    /\ obj.strategyType = "InPlaceOnly"
    /\ obj.replicas = MaxReplicas /\ obj.partition = 1
    /\ obj.updatedReplicas = MaxReplicas - 1
    /\ obj.readyReplicas = 0
    /\ res = C15_WaitingObserved

----------------------------------------------------------------------------
(* C16 *)

\* C16: for StatefulSet, CloneSet and Advanced StatefulSet, Status never
\* returns done = true for a snapshot in which updateRevision differs from
\* currentRevision and no partition is set, even if all replica counts are
\* satisfied.  (Stated for the strategies Status reports on, leaving the
\* done = true of the unsupported-strategy error aside.)
C16_NoDoneWhileRevisionsDiffer ==
    (Evaluated /\ HasStatusRevisions /\ StrategySupported
        /\ obj.partition = Nil
        /\ obj.updateRevision # obj.currentRevision)
      => ~res.done

----------------------------------------------------------------------------
(* C17 *)

\* the entries of seq at the indexes in idx, in the order of seq
RECURSIVE C17_At(_, _, _)
C17_At(seq, idx, i) ==
    IF i > Len(seq) THEN <<>>
    ELSE (IF i \in idx THEN <<seq[i]>> ELSE <<>>) \o C17_At(seq, idx, i + 1)

C17_Names(seq) == {seq[i].name : i \in 1 .. Len(seq)}

\* the entry of list that has the name (the first one, if several have it)
C17_Named(list, name) ==
    list[CHOOSE i \in 1 .. Len(list) :
            /\ list[i].name = name
            /\ \A j \in 1 .. i - 1 : list[j].name # name]

\* the existing entries that remain once the removals are applied
C17_Remaining ==
    C17_At(existing, {i \in 1 .. Len(existing) : existing[i].name \notin remove}, 1)

\* no two entries of seq have the same name
C17_Distinct(seq) ==
    \A i, j \in 1 .. Len(seq) : seq[i].name = seq[j].name => i = j

\* what C17 says the output is
C17_AsStated ==
    [i \in 1 .. Len(C17_Remaining) |->
        IF C17_Remaining[i].name \in C17_Names(env)
          THEN C17_Named(env, C17_Remaining[i].name)
        ELSE C17_Remaining[i]]
    \o C17_At(env, {i \in 1 .. Len(env) :
                      env[i].name \notin C17_Names(C17_Remaining)}, 1)

\* C17 as stated: the output is the existing list with the removals applied,
\* every remaining entry that has the name of a variable to set replaced by
\* it where it stands, and then every variable to set whose name no remaining
\* entry has (a name that was just removed included), in the order given.
\* (Stated for lists without duplicate names, where "that entry" is one.)
C17_RemovalsThenUpserts ==
    (epc = "once" /\ C17_Distinct(existing) /\ C17_Distinct(env))
        => out = C17_AsStated

\* the variables to set that take effect: the first of each name, if the
\* name is not removed
C17_Effective ==
    C17_At(env, {i \in 1 .. Len(env) :
                    /\ env[i].name \notin remove
                    /\ \A j \in 1 .. i - 1 : env[j].name # env[i].name}, 1)

\* the existing entries that keep their place: not removed, and the first
\* of their name if a variable of that name is set
C17_Kept ==
    C17_At(existing,
           {i \in 1 .. Len(existing) :
               /\ existing[i].name \notin remove
               /\ existing[i].name \in C17_Names(C17_Effective)
                    => \A j \in 1 .. i - 1 : existing[j].name # existing[i].name}, 1)

C17_AsAmended ==
    [i \in 1 .. Len(C17_Kept) |->
        IF C17_Kept[i].name \in C17_Names(C17_Effective)
          THEN C17_Named(C17_Effective, C17_Kept[i].name)
        ELSE C17_Kept[i]]
    \o C17_At(C17_Effective,
              {i \in 1 .. Len(C17_Effective) :
                  C17_Effective[i].name \notin C17_Names(C17_Kept)}, 1)

\* C17 as amended: the removal set wins over the variables to set: no entry
\* of the output has a removed name, and a variable to set whose name is
\* removed is neither put in place nor appended.  Of the variables to set,
\* the first of each name counts.  It replaces the first remaining existing
\* entry of its name where that stands (later existing entries of the name
\* are dropped), or, if no remaining entry has its name, is appended after
\* the existing entries in the order given.  Every other existing entry
\* keeps its value and relative order.
C17_RemovalsWinThenUpserts ==
    epc = "once" =>
      /\ out = C17_AsAmended
      /\ C17_Names(out) \cap remove = {}

\* a variable replaced where it stands, ahead of one that is kept, and a
\* variable both set and removed that is in the output no more
C17_Witness ==
    /\ epc = "once"
    /\ Len(existing) = 2 /\ Len(env) = 2 /\ Len(out) = 2
    /\ existing[1].name # existing[2].name
    /\ env[1].name \in remove
    /\ env[2].name = existing[1].name /\ env[2].value # existing[1].value
    /\ out = <<env[2], existing[2]>>

----------------------------------------------------------------------------
(* C18 *)

\* the changes the call can have received: those after the list's snapshot
C18_AfterList == (podList.resourceVersion + 1) .. Len(log)

\* C18: when the initial list is empty the watch is opened at exactly the
\* resource version of that list, so that no matching pod added after the
\* list's snapshot (between the List and the Watch calls included) is
\* missed; a call that returns a pod from the watch returns the pod of the
\* first Added or Modified event after the snapshot, with match count 1,
\* and the events the wait has passed over are none of these.
C18_WatchFromListVersion ==
    /\ w.state # "none" =>
         /\ Len(podList.items) = 0
         /\ w.resourceVersion = podList.resourceVersion
    /\ lpc = "watching" =>
         \A i \in C18_AfterList : i < w.cursor => ~condition(log[i])
    /\ (lpc = "returned" /\ w.state = "stopped" /\ ret.err = "nil") =>
         \E i \in C18_AfterList :
            /\ condition(log[i])
            /\ \A j \in C18_AfterList : j < i => ~condition(log[j])
            /\ ret = Returned(log[i].pod, 1, "nil")

\* the pod was added after the list and before the watch was opened, and
\* was deleted again before the call returned it
C18_Witness ==
    /\ lpc = "returned" /\ w.state = "stopped"
    /\ w.openedAt > podList.resourceVersion
    /\ seen.skipped > 0
    /\ Len(log) = w.resourceVersion + 2
    /\ log[w.resourceVersion + 1].type = "ADDED"
    /\ log[w.resourceVersion + 2] = Event("DELETED", ret.pod)
    /\ ret = Returned(log[w.resourceVersion + 1].pod, 1, "nil")

----------------------------------------------------------------------------
(* C19 *)

\* C19: Status of the Advanced StatefulSet viewer is total: for every
\* decodable snapshot, one with the RollingUpdate strategy type, a desired
\* replica count and no rolling-update sub-policy included, it returns a
\* (message, done, error) result and never aborts.
C19_AdvancedStatefulSetStatusTotal ==
    (IsAdvancedStatefulSet /\ pc \in {"done", "panicked"} /\ obj.decoded)
      => (pc = "done" /\ res # NoResult)

====
